---- MODULE Spec2Model ----
(***************************************************************************)
(* A model of go-http-template (main.go): the request pipeline             *)
(* recovery(accesslog(mux)), the responseRecorder that both middlewares    *)
(* wrap around the response writer, and the start / signal / graceful      *)
(* shutdown sequence of run and main.                                      *)
(*                                                                         *)
(* A byte slice is a sequence of tokens, one token per byte.  The          *)
(* net/http response writer under the recorders is modelled by what its    *)
(* documentation says: the first WriteHeader (or the first Write, with an  *)
(* implicit 200) commits status and headers, later WriteHeader calls are   *)
(* ignored, an invalid code panics, and Write may be cut short by a        *)
(* transport error, after which the connection stays broken.               *)
(***************************************************************************)
EXTENDS Integers, Sequences, FiniteSets, TLC

\* ---------------------------------------------------------------- bounds
\* Connections the server handles at the same time.
MaxReq == 2
\* Calls (WriteHeader or Write) a handler of the debug sub-tree makes.
MaxOps == 2

\* ------------------------------------------------------ program constants
\* run: context.WithTimeout(context.Background(), 10*time.Second), in seconds.
GracePeriod == 10
StatusOK == 200
StatusNotFound == 404
StatusInternalServerError == 500

Reqs == 1..MaxReq

\* -------------------------------------------------------------- data
HeaderKeys == {"Content-Type", "Access-Control-Allow-Origin", "X-Content-Type-Options"}
NoHeaders == [k \in HeaderKeys |-> ""]

\* The embedded api/openapi.yaml.
openapi == <<"openapi: 3.0.0", "paths">>

\* What a Write returns: (n, err).
NoRet == [n |-> 0, err |-> FALSE]

\* http.ErrAbortHandler, and the other values a handler may panic with.
ErrAbortHandler == "abort"
PanicValues == {ErrAbortHandler, "boom"}
\* net/http's own panic on WriteHeader with a code outside 100..999.
InvalidCodePanic == "invalid WriteHeader code"

\* What the opaque handlers of the debug sub-tree may pass to the writer.
Codes == {0, StatusNotFound}
Chunks == {<<"x">>, <<"y", "z">>}

Routes == {"health", "openapi", "debug", "notfound"}

\* debug.ReadBuildInfo() and the Version variable, as the build sets them.
BuildInfos ==
    { [version |-> "", revision |-> "", time |-> "", modified |-> ""],
      [version |-> "v1", revision |-> "abc", time |-> "2024-01-01T00:00:00Z", modified |-> "true"] }

ZeroTime == "0001-01-01T00:00:00Z"
ZeroRes == [Version |-> "", Revision |-> "", Time |-> ZeroTime, Modified |-> FALSE]

\* ------------------------------------------- the transport's writer
\* hdr: the header map; status: the committed status (0: none yet); sent: the
\* headers as committed; body: the bytes the transport took; broken: a write
\* failed; last: what the last Write returned; codes: the codes its
\* WriteHeader was called with.
NewWriter ==
    [hdr |-> NoHeaders, status |-> 0, sent |-> NoHeaders, body |-> <<>>,
     broken |-> FALSE, last |-> NoRet, codes |-> <<>>]

ValidCode(code) == code >= 100 /\ code <= 999

\* response.WriteHeader panics on an invalid code, unless already committed.
RawPanics(w, code) == w.status = 0 /\ ~ValidCode(code)

\* The first status commits, with the headers as they are then.
Commit(w, code) ==
    IF w.status # 0 THEN w
    ELSE [w EXCEPT !.status = code, !.sent = w.hdr]

\* response.WriteHeader(code): ignored once committed; an invalid code
\* commits nothing (the call panics, see RawPanics).
RawWriteHeader(w, code) ==
    LET c == IF RawPanics(w, code) THEN w ELSE Commit(w, code)
    IN  [c EXCEPT !.codes = Append(@, code)]

\* The results the transport can give a Write of b.
WriteResults(w, b) ==
    IF w.broken THEN {[n |-> 0, err |-> TRUE]}
    ELSE {[n |-> Len(b), err |-> FALSE],
          [n |-> IF Len(b) > 0 THEN Len(b) - 1 ELSE 0, err |-> TRUE]}

RawWrite(w, b, res) ==
    LET c == Commit(w, StatusOK)
    IN  [c EXCEPT !.body = @ \o SubSeq(b, 1, res.n),
                  !.broken = @ \/ res.err,
                  !.last = res]

RawSetHeader(w, k, v) == [w EXCEPT !.hdr[k] = v]

\* ------------------------------------------------- responseRecorder
NewRecorder == [status |-> 0, numBytes |-> 0]

\* A recorder that keeps the first status it was given.
RecorderWriteHeaderFirst(re, statusCode) ==
    IF re.status # 0 THEN re ELSE [re EXCEPT !.status = statusCode]

\* WriteHeader: re.status = statusCode, then the underlying WriteHeader.
RecorderWriteHeader(re, statusCode) == [re EXCEPT !.status = statusCode]

\* A recorder that counts the bytes the underlying writer reports taken.
RecorderWriteTaken(re, b, under) ==
    [re |-> [re EXCEPT !.numBytes = @ + under.n], ret |-> under]

\* Write: re.numBytes += len(b); return re.ResponseWriter.Write(b).
\* under is what the underlying Write returned.
RecorderWrite(re, b, under) ==
    [re |-> [re EXCEPT !.numBytes = @ + Len(b)], ret |-> under]

\* ------------------------------------------------------------ state
VARIABLES
    args,         \* the command line: "ok" or "malformed" (-port not a uint)
    build,        \* the build metadata of this binary
    mainPc,       \* where main/run is
    goPc,         \* where the goroutine calling ListenAndServe is
    ctxDone,      \* the signal context is canceled
    listenerOpen, \* the listening socket accepts connections
    inShutdown,   \* server.Shutdown has been called
    elapsed,      \* seconds since shutdownCtx was created
    shutdownErr,  \* what server.Shutdown returned
    runErr,       \* what run returned
    exitCode,     \* the exit status of the process (-1: running)
    serverErrors, \* "server error" events logged by the goroutine
    health,       \* res, the value handleGetHealth captured
    req           \* per connection: the request being served

vars == <<args, build, mainPc, goPc, ctxDone, listenerOpen, inShutdown, elapsed,
          shutdownErr, runErr, exitCode, serverErrors, health, req>>

procVars == <<args, build, mainPc, goPc, ctxDone, listenerOpen, inShutdown, elapsed,
              shutdownErr, runErr, exitCode, serverErrors, health>>

\* A connection with no request: pc "idle".  While a request is served:
\* w is the transport's writer, rwr the recorder of recovery, awr the recorder
\* of accesslog (the one the handler writes to), ret what the handler's last
\* Write returned, passed the slices the handler passed to Write, headed the
\* codes it passed to WriteHeader, ops the number of writer calls made, err
\* the panic unwinding the stack ("none": no panic), caught the value
\* recover() returned in recovery, accessed the "accessed" records logged,
\* panics the "panic!" events logged.
IdleReq ==
    [pc |-> "idle", route |-> "none", w |-> NewWriter, rwr |-> NewRecorder,
     awr |-> NewRecorder, ret |-> NoRet, passed |-> <<>>, headed |-> <<>>,
     ops |-> 0, err |-> "none", caught |-> "none", accessed |-> <<>>, panics |-> 0]

\* ------------------------------------- calls through the two recorders
\* w.WriteHeader(code) on accesslog's recorder: it records and delegates to
\* recovery's recorder, which records and delegates to the transport.
ServeWriteHeader(q, code) ==
    LET aw == RecorderWriteHeader(q.awr, code)
        rw == RecorderWriteHeader(q.rwr, code)
        c == [q EXCEPT !.awr = aw, !.rwr = rw, !.w = RawWriteHeader(q.w, code),
                       !.headed = Append(@, code)]
    IN  IF RawPanics(q.w, code) THEN [c EXCEPT !.err = InvalidCodePanic] ELSE c

\* w.Write(b) on accesslog's recorder; res is the transport's result.
ServeWrite(q, b, res) ==
    LET rw == RecorderWrite(q.rwr, b, res)
        aw == RecorderWrite(q.awr, b, rw.ret)
    IN  [q EXCEPT !.w = RawWrite(q.w, b, res), !.rwr = rw.re, !.awr = aw.re,
                  !.ret = aw.ret, !.passed = Append(@, b)]

\* w.Header().Set(k, v): Header() returns the transport's own map.
ServeSetHeader(q, k, v) == [q EXCEPT !.w = RawSetHeader(q.w, k, v)]

\* The result of one more Write, of b, on the connection of q.
NextResults(q, b) == WriteResults(q.w, b)

\* http.Error(w, msg, code) with w the recorder of accesslog.
HttpError(q, msg, code, res) ==
    LET h1 == ServeSetHeader(q, "Content-Type", "text/plain; charset=utf-8")
        h2 == ServeSetHeader(h1, "X-Content-Type-Options", "nosniff")
        h3 == ServeWriteHeader(h2, code)
    IN  ServeWrite(h3, msg \o <<"\n">>, res)

\* http.Error(w, msg, code) with w the transport's writer itself.
HttpErrorRaw(w, msg, code, res) ==
    LET h1 == RawSetHeader(w, "Content-Type", "text/plain; charset=utf-8")
        h2 == RawSetHeader(h1, "X-Content-Type-Options", "nosniff")
        h3 == RawWriteHeader(h2, code)
    IN  RawWrite(h3, msg \o <<"\n">>, res)

\* fmt.Sprintf("%v", err)
Sprint(v) == <<v>>

\* ------------------------------------------------------ middleware
\* A recovery that does not tell the abort sentinel from a failure.
IsAbortNever(err) == FALSE

\* err == http.ErrAbortHandler
IsAbort(err) == err = ErrAbortHandler

\* accesslog, after next.ServeHTTP(&wr, r): the "accessed" record is logged by
\* the statement that follows the call, which a panic unwinds past.
AccesslogAfter(q) ==
    IF q.err = "none"
    THEN [q EXCEPT !.accessed =
              Append(@, [status |-> q.awr.status, bytes |-> q.awr.numBytes])]
    ELSE q

\* A recovery that panics again with the abort sentinel, as net/http's own
\* handlers do to abort a response.
RecoveryDeferRepanic(q, res) ==
    IF q.err = "none" THEN q
    ELSE IF q.err = ErrAbortHandler THEN [q EXCEPT !.caught = q.err]
    ELSE LET l == [q EXCEPT !.caught = q.err, !.err = "none", !.panics = @ + 1]
         IN  IF q.rwr.status = 0
             THEN [l EXCEPT !.w = HttpErrorRaw(q.w, Sprint(q.err),
                                         StatusInternalServerError, res)]
             ELSE l

\* A recovery that writes the fallback response through its own recorder.
RecoveryDeferRecorded(q, res) ==
    IF q.err = "none" THEN q
    ELSE LET c == [q EXCEPT !.caught = q.err, !.err = "none"]
         IN  IF IsAbort(q.err) THEN c
             ELSE LET l == [c EXCEPT !.panics = @ + 1]
                      msg == Sprint(q.err) \o <<"\n">>
                  IN  IF q.rwr.status = 0
                      THEN [l EXCEPT
                              !.w = HttpErrorRaw(q.w, Sprint(q.err),
                                                 StatusInternalServerError, res),
                              !.rwr = [status |-> StatusInternalServerError,
                                       numBytes |-> q.rwr.numBytes + Len(msg)]]
                      ELSE l

\* recovery's deferred function; res is the transport's result for the write
\* of the fallback response, when there is one.
RecoveryDefer(q, res) ==
    IF q.err = "none" THEN q
    ELSE LET c == [q EXCEPT !.caught = q.err, !.err = "none"]
         IN  IF IsAbort(q.err) THEN c
             ELSE LET l == [c EXCEPT !.panics = @ + 1]
                  IN  IF q.rwr.status = 0
                      THEN [l EXCEPT !.w = HttpErrorRaw(q.w, Sprint(q.err),
                                                  StatusInternalServerError, res)]
                      ELSE l

\* The handler has returned or panicked: the stack unwinds through accesslog
\* and recovery.  A panic that recovery lets through ends in net/http's
\* conn.serve, which closes the connection ("aborted").
Unwind(q, res) ==
    LET u == RecoveryDefer(AccesslogAfter(q), res)
    IN  [u EXCEPT !.pc = IF u.err = "none" THEN "done" ELSE "aborted"]

\* -------------------------------------------------------- handlers
\* handleGetHealth, before the returned closure: res from the build metadata.
ParseTime(v) == IF v = "" THEN ZeroTime ELSE v

MakeHealth(b) ==
    [Version |-> b.version,
     Revision |-> b.revision,
     Time |-> ParseTime(b.time),
     Modified |-> (b.modified = "true")]

\* json.NewEncoder(w).Encode(res): the object and a newline, in one Write.
Encode(res) ==
    <<"{", res.Version, res.Revision, res.Time,
      IF res.Modified THEN "true" ELSE "false", "}", "\n">>

Only(S) == CHOOSE x \in S : TRUE

\* A health handler that stamps the response with the time of the call.
GetHealthStamped(q, res, wres) ==
    LET h == ServeSetHeader(q, "Content-Type", "application/json")
        s == ServeWriteHeader(h, StatusOK)
    IN  ServeWrite(s, Encode([res EXCEPT !.Time = "now"]), wres)

\* The closure handleGetHealth returns.
GetHealth(q, res, wres) ==
    LET h == ServeSetHeader(q, "Content-Type", "application/json")
        s == ServeWriteHeader(h, StatusOK)
        e == ServeWrite(s, Encode(res), wres)
    IN  IF wres.err
        THEN HttpError(e, <<"write error">>, StatusInternalServerError,
                       Only(NextResults(e, <<"write error", "\n">>)))
        ELSE e

\* An openapi handler that sets its headers after the status is committed.
GetOpenapiLateHeaders(q, wres) ==
    LET s == ServeWriteHeader(q, StatusOK)
        h1 == ServeSetHeader(s, "Content-Type", "text/plain")
        h2 == ServeSetHeader(h1, "Access-Control-Allow-Origin", "*")
    IN  ServeWrite(h2, openapi, wres)

\* The closure handleGetOpenapi returns.
GetOpenapi(q, wres) ==
    LET h1 == ServeSetHeader(q, "Content-Type", "text/plain")
        h2 == ServeSetHeader(h1, "Access-Control-Allow-Origin", "*")
        s == ServeWriteHeader(h2, StatusOK)
    IN  ServeWrite(s, openapi, wres)

\* The mux's answer to a request no pattern matches: http.NotFound.
NotFound(q, wres) == HttpError(q, <<"404 page not found">>, StatusNotFound, wres)

\* ------------------------------------------------------------- Init
Init ==
    /\ args \in {"ok", "malformed"}
    /\ build \in BuildInfos
    /\ mainPc = "start"
    /\ goPc = "none"
    /\ ctxDone = FALSE
    /\ listenerOpen = FALSE
    /\ inShutdown = FALSE
    /\ elapsed = 0
    /\ shutdownErr = "none"
    /\ runErr = "none"
    /\ exitCode = -1
    /\ serverErrors = 0
    /\ health = ZeroRes
    /\ req = [r \in Reqs |-> IdleReq]

Running == mainPc # "exited"

\* The requests Shutdown waits for: a handler is running.
InFlight == {r \in Reqs : req[r].pc = "handler"}

\* ------------------------------------------------------ main and run
\* A run that goes on after a flag it could not parse.
ParseOkIgnored(a) == TRUE

\* fs.Parse(args[1:]) of a flag set made with flag.ExitOnError.
ParseOk(a) == a = "ok"

\* run, up to <-ctx.Done(): parse the flags (a parse error exits with status
\* 2 inside fs.Parse), build the routes, start the goroutine.
RunStart ==
    /\ mainPc = "start"
    /\ IF ParseOk(args)
       THEN /\ mainPc' = "waiting"
            /\ goPc' = "spawned"
            /\ health' = MakeHealth(build)
            /\ UNCHANGED exitCode
       ELSE /\ mainPc' = "exited"
            /\ exitCode' = 2
            /\ UNCHANGED <<goPc, health>>
    /\ UNCHANGED <<args, build, ctxDone, listenerOpen, inShutdown, elapsed,
                   shutdownErr, runErr, serverErrors, req>>

\* SIGINT or SIGTERM arrives, or the caller cancels the context.
Cancel ==
    /\ Running
    /\ ~ctxDone
    /\ ctxDone' = TRUE
    /\ UNCHANGED <<args, build, mainPc, goPc, listenerOpen, inShutdown, elapsed,
                   shutdownErr, runErr, exitCode, serverErrors, health, req>>

\* A goroutine that logs every error ListenAndServe returns.
IsServerErrorAny(err) == err # "nil"

\* err != nil && err != http.ErrServerClosed
IsServerError(err) == err # "nil" /\ err # "ErrServerClosed"

\* A goroutine that ends the process when the listener cannot bind.
ListenAndServeFatal ==
    /\ Running
    /\ goPc = "spawned"
    /\ \E bound \in BOOLEAN :
         IF inShutdown
         THEN goPc' = "closed" /\ UNCHANGED <<listenerOpen, serverErrors, mainPc, exitCode>>
         ELSE IF bound
         THEN goPc' = "serving" /\ listenerOpen' = TRUE
              /\ UNCHANGED <<serverErrors, mainPc, exitCode>>
         ELSE goPc' = "done" /\ serverErrors' = serverErrors + 1
              /\ mainPc' = "exited" /\ exitCode' = 1 /\ UNCHANGED listenerOpen
    /\ UNCHANGED <<args, build, ctxDone, inShutdown, elapsed, shutdownErr,
                   runErr, health, req>>

\* The goroutine: server.ListenAndServe().  After Shutdown it returns
\* ErrServerClosed at once (goPc "closed": it never served); otherwise it
\* binds, and a bind failure is logged as "server error".
ListenAndServe ==
    /\ Running
    /\ goPc = "spawned"
    /\ \E bound \in BOOLEAN :
         LET err == IF inShutdown THEN "ErrServerClosed"
                    ELSE IF bound THEN "nil" ELSE "bind: address already in use"
         IN  IF err = "nil"
             THEN goPc' = "serving" /\ listenerOpen' = TRUE /\ UNCHANGED serverErrors
             ELSE /\ goPc' = IF err = "ErrServerClosed" THEN "closed" ELSE "done"
                  /\ serverErrors' = IF IsServerError(err) THEN serverErrors + 1
                                     ELSE serverErrors
                  /\ UNCHANGED listenerOpen
    /\ UNCHANGED <<args, build, mainPc, ctxDone, inShutdown, elapsed, shutdownErr,
                   runErr, exitCode, health, req>>

\* The goroutine: Serve returns ErrServerClosed once the listener is closed;
\* that error is not logged.
ServeReturns ==
    /\ Running
    /\ goPc = "serving"
    /\ ~listenerOpen
    /\ goPc' = "done"
    /\ serverErrors' = IF IsServerError("ErrServerClosed") THEN serverErrors + 1
                       ELSE serverErrors
    /\ UNCHANGED <<args, build, mainPc, ctxDone, listenerOpen, inShutdown, elapsed,
                   shutdownErr, runErr, exitCode, health, req>>

\* A run that does not wait for the context before it shuts the server down.
BeginShutdownEarly ==
    /\ mainPc = "waiting"
    /\ mainPc' = "shutdown"
    /\ inShutdown' = TRUE
    /\ listenerOpen' = FALSE
    /\ elapsed' = 0
    /\ UNCHANGED <<args, build, goPc, ctxDone, shutdownErr, runErr, exitCode,
                   serverErrors, health, req>>

\* run: <-ctx.Done() returns; shutdownCtx is created and server.Shutdown
\* called, which closes the listener.
BeginShutdown ==
    /\ mainPc = "waiting"
    /\ ctxDone
    /\ mainPc' = "shutdown"
    /\ inShutdown' = TRUE
    /\ listenerOpen' = FALSE
    /\ elapsed' = 0
    /\ UNCHANGED <<args, build, goPc, ctxDone, shutdownErr, runErr, exitCode,
                   serverErrors, health, req>>

\* A run that drops the error of Shutdown.
RunResultDropped(err) == "nil"

\* run: if err := server.Shutdown(shutdownCtx); err != nil { return err }; return nil
RunResult(err) == err

\* server.Shutdown finds no connection busy: it returns nil.
ShutdownIdle ==
    /\ mainPc = "shutdown"
    /\ InFlight = {}
    /\ shutdownErr' = "nil"
    /\ runErr' = RunResult("nil")
    /\ mainPc' = "returned"
    /\ UNCHANGED <<args, build, goPc, ctxDone, listenerOpen, inShutdown, elapsed,
                   exitCode, serverErrors, health, req>>

\* The model looks at the clock of shutdownCtx twice in a grace period.
Tick == GracePeriod \div 2

\* server.Shutdown polls, finds a connection busy and waits: time passes.
ShutdownTick ==
    /\ mainPc = "shutdown"
    /\ InFlight # {}
    /\ elapsed < GracePeriod
    /\ elapsed' = elapsed + Tick
    /\ UNCHANGED <<args, build, mainPc, goPc, ctxDone, listenerOpen, inShutdown,
                   shutdownErr, runErr, exitCode, serverErrors, health, req>>

\* A Shutdown that closes the busy connections when its context expires.
ShutdownTimeoutCloses ==
    /\ mainPc = "shutdown"
    /\ InFlight # {}
    /\ elapsed >= GracePeriod
    /\ shutdownErr' = "deadline"
    /\ runErr' = "deadline"
    /\ mainPc' = "returned"
    /\ req' = [r \in Reqs |->
                 IF r \in InFlight THEN [req[r] EXCEPT !.pc = "aborted"] ELSE req[r]]
    /\ UNCHANGED <<args, build, goPc, ctxDone, listenerOpen, inShutdown, elapsed,
                   exitCode, serverErrors, health>>

\* shutdownCtx expires with a connection still busy: Shutdown returns
\* context.DeadlineExceeded.
ShutdownTimeout ==
    /\ mainPc = "shutdown"
    /\ InFlight # {}
    /\ elapsed >= GracePeriod
    /\ shutdownErr' = "deadline"
    /\ runErr' = RunResult("deadline")
    /\ mainPc' = "returned"
    /\ UNCHANGED <<args, build, goPc, ctxDone, listenerOpen, inShutdown, elapsed,
                   exitCode, serverErrors, health, req>>

\* A main that reports every return of run as a failure.
ExitStatusAlwaysOne(err) == 1

\* main: os.Exit(1) if run returned an error, else main returns.
ExitStatus(err) == IF err # "nil" THEN 1 ELSE 0

MainExit ==
    /\ mainPc = "returned"
    /\ exitCode' = ExitStatus(runErr)
    /\ mainPc' = "exited"
    /\ UNCHANGED <<args, build, goPc, ctxDone, listenerOpen, inShutdown, elapsed,
                   shutdownErr, runErr, serverErrors, health, req>>

\* ------------------------------------------------------- requests
\* The transport accepts a connection and calls the handler route() built:
\* recovery makes its recorder, accesslog its own, the mux picks the route.
Accept(r, rt) ==
    /\ Running
    /\ listenerOpen
    /\ req[r].pc = "idle"
    /\ \A k \in 1..(r - 1) : req[k].pc # "idle"
    /\ req' = [req EXCEPT ![r] = [IdleReq EXCEPT !.pc = "handler", !.route = rt]]
    /\ UNCHANGED procVars

\* The handler of r is over, with q the state it left: unwind.
Finish(r, q) ==
    \E fres \in WriteResults(q.w, Sprint(q.err) \o <<"\n">>) :
        req' = [req EXCEPT ![r] = Unwind(q, fres)]

Serving(r, rt) == Running /\ req[r].pc = "handler" /\ req[r].route = rt

HandleGetHealth(r) ==
    /\ Serving(r, "health")
    /\ \E wres \in WriteResults(req[r].w, Encode(health)) :
           Finish(r, GetHealth(req[r], health, wres))
    /\ UNCHANGED procVars

HandleGetOpenapi(r) ==
    /\ Serving(r, "openapi")
    /\ \E wres \in WriteResults(req[r].w, openapi) :
           Finish(r, GetOpenapi(req[r], wres))
    /\ UNCHANGED procVars

HandleNotFound(r) ==
    /\ Serving(r, "notfound")
    /\ \E wres \in WriteResults(req[r].w, <<"404 page not found", "\n">>) :
           Finish(r, NotFound(req[r], wres))
    /\ UNCHANGED procVars

\* A handler of the debug sub-tree (or any handler added to route()) calls
\* WriteHeader; an invalid code panics in the transport.
DebugWriteHeader(r, code) ==
    /\ Serving(r, "debug")
    /\ req[r].ops < MaxOps
    /\ LET q == [ServeWriteHeader(req[r], code) EXCEPT !.ops = @ + 1]
       IN  IF q.err # "none" THEN Finish(r, q)
           ELSE req' = [req EXCEPT ![r] = q]
    /\ UNCHANGED procVars

\* A pipeline whose accesslog recorder is one value shared by all requests.
DebugWriteShared(r, b) ==
    /\ Serving(r, "debug")
    /\ req[r].ops < MaxOps
    /\ \E wres \in WriteResults(req[r].w, b) :
           req' = [k \in Reqs |->
                     IF k = r
                     THEN [ServeWrite(req[r], b, wres) EXCEPT !.ops = @ + 1]
                     ELSE IF req[k].pc = "handler"
                     THEN [req[k] EXCEPT !.awr.numBytes = @ + Len(b)]
                     ELSE req[k]]
    /\ UNCHANGED procVars

\* ... calls Write.
DebugWrite(r, b) ==
    /\ Serving(r, "debug")
    /\ req[r].ops < MaxOps
    /\ \E wres \in WriteResults(req[r].w, b) :
           req' = [req EXCEPT ![r] = [ServeWrite(req[r], b, wres) EXCEPT !.ops = @ + 1]]
    /\ UNCHANGED procVars

\* ... returns.
DebugReturn(r) ==
    /\ Serving(r, "debug")
    /\ Finish(r, req[r])
    /\ UNCHANGED procVars

\* ... panics with v.
DebugPanic(r, v) ==
    /\ Serving(r, "debug")
    /\ Finish(r, [req[r] EXCEPT !.err = v])
    /\ UNCHANGED procVars

\* The connection of a served request is closed; its recorders are garbage.
Close(r) ==
    /\ Running
    /\ req[r].pc \in {"done", "aborted"}
    /\ req' = [req EXCEPT ![r] = IdleReq]
    /\ UNCHANGED procVars

\* ------------------------------------------------------------- Next
Next ==
    \/ RunStart
    \/ Cancel
    \/ ListenAndServe
    \/ ServeReturns
    \/ BeginShutdown
    \/ ShutdownIdle
    \/ ShutdownTick
    \/ ShutdownTimeout
    \/ MainExit
    \/ \E r \in Reqs, rt \in Routes : Accept(r, rt)
    \/ \E r \in Reqs : HandleGetHealth(r)
    \/ \E r \in Reqs : HandleGetOpenapi(r)
    \/ \E r \in Reqs : HandleNotFound(r)
    \/ \E r \in Reqs, v \in PanicValues : DebugPanic(r, v)
    \/ \E r \in Reqs : DebugReturn(r)
    \/ \E r \in Reqs, b \in Chunks : DebugWrite(r, b)
    \/ \E r \in Reqs, code \in Codes : DebugWriteHeader(r, code)
    \/ \E r \in Reqs : Close(r)

Spec == Init /\ [][Next]_vars

\* Fairness: the Go scheduler runs the main goroutine and timers fire, so run
\* and main take their next step when they can.
FairSpec ==
    /\ Spec
    /\ WF_vars(BeginShutdown)
    /\ WF_vars(ShutdownIdle)
    /\ WF_vars(ShutdownTick)
    /\ WF_vars(ShutdownTimeout)
    /\ WF_vars(MainExit)

\* ============================================================ claims
RECURSIVE SumLen(_)
SumLen(bs) == IF bs = <<>> THEN 0 ELSE Len(Head(bs)) + SumLen(Tail(bs))

Served(r) == req[r].pc \in {"done", "aborted"}

\* The handler of r ends in this step (it returns or panics) and the stack
\* unwinds.
Ends(r) == req[r].pc = "handler" /\ req'[r].pc # "handler"

\* C1: every served request has exactly one "accessed" record, whether its
\* handler returned or panicked.
C1_ExactlyOneAccessLog ==
    \A r \in Reqs :
        /\ Len(req[r].accessed) <= 1
        /\ Served(r) => Len(req[r].accessed) = 1

\* C2: when a handler panics with a value other than the abort sentinel: if
\* no status was written before the panic the client gets a 500 whose body is
\* the panic value, and if a status was already written recovery writes
\* nothing more and records no second status.
C2_FallbackOnlyIfUnwritten ==
    [][\A r \in Reqs :
         (Ends(r) /\ req'[r].caught \notin {"none", ErrAbortHandler}) =>
            IF req[r].w.status = 0
            THEN /\ req'[r].w.status = StatusInternalServerError
                 /\ ~req'[r].w.broken =>
                        req'[r].w.body = Sprint(req'[r].caught) \o <<"\n">>
            ELSE /\ req'[r].w = req[r].w
                 /\ req'[r].rwr.status = req[r].rwr.status
                 /\ req'[r].awr.status = req[r].awr.status]_vars

\* C3: a panic with http.ErrAbortHandler is swallowed: no "panic!" event, no
\* write to the response, whatever the handler had written.
C3_AbortSwallowed ==
    [][\A r \in Reqs :
         (Ends(r) /\ req'[r].caught = ErrAbortHandler) =>
            /\ req'[r].panics = req[r].panics
            /\ req'[r].w = req[r].w
            /\ req'[r].pc = "done"]_vars

C3_Witness ==
    \E r \in Reqs :
        /\ req[r].pc = "done"
        /\ req[r].caught = ErrAbortHandler
        /\ req[r].w.status # 0
        /\ req[r].w.body # <<>>

\* C4: recovery never re-panics: whatever the handler panics with, the
\* recovery handler returns normally, and the step changes nothing of the
\* server's lifecycle.
C4_NeverRepanics ==
    [][\A r \in Reqs :
         Ends(r) =>
            /\ req'[r].pc = "done"
            /\ req'[r].err = "none"
            /\ UNCHANGED <<mainPc, goPc, listenerOpen, inShutdown, exitCode, ctxDone>>]_vars

C4_Witness ==
    \E r \in Reqs :
        /\ req[r].pc = "done"
        /\ req[r].caught = "boom"
        /\ listenerOpen
        /\ mainPc = "waiting"

\* C5: numBytes of a recorder is the sum of len(b) over the slices passed to
\* Write, whatever the underlying writer returned, and Write returns what the
\* underlying writer returned.
C5_BytesAreSumOfLens ==
    \A r \in Reqs :
        /\ req[r].awr.numBytes = SumLen(req[r].passed)
        /\ req[r].rwr.numBytes = SumLen(req[r].passed)
        /\ req[r].panics = 0 => req[r].ret = req[r].w.last

C5_Witness ==
    \E r \in Reqs :
        /\ Len(req[r].passed) >= 2
        /\ req[r].w.broken
        /\ req[r].awr.numBytes > Len(req[r].w.body)
        /\ req[r].ret.err

\* C6: Shutdown returns nil when no request is in flight before the grace
\* period is over, and the deadline error when one still is at its end; run
\* returns that result, and main exits 0 on nil and non-zero on the error.
C6_GraceDecidesResult ==
    /\ [][(mainPc = "shutdown" /\ mainPc' = "returned") =>
            IF InFlight = {}
            THEN elapsed <= GracePeriod /\ shutdownErr' = "nil" /\ runErr' = "nil"
            ELSE elapsed = GracePeriod /\ shutdownErr' = "deadline"
                 /\ runErr' = "deadline"]_vars
    /\ [][(mainPc = "returned" /\ mainPc' = "exited") =>
            (exitCode' = 0 <=> shutdownErr = "nil")]_vars

C6_Witness ==
    /\ mainPc = "exited"
    /\ shutdownErr = "deadline"
    /\ runErr = "deadline"
    /\ exitCode = 1
    /\ elapsed = GracePeriod
    /\ InFlight # {}

\* C7: once the context of a listening instance is canceled, the instance
\* stops accepting connections and the process exits; it exits with status 0
\* unless a request outlived the grace period.
C7_SignalLeadsToExit ==
    /\ (ctxDone /\ mainPc = "waiting") ~>
           (/\ mainPc = "exited"
            /\ ~listenerOpen
            /\ (exitCode = 0 \/ shutdownErr = "deadline"))
    /\ [][inShutdown => \A r \in Reqs : req[r].pc = "idle" => req'[r].pc = "idle"]_vars

C7_Witness ==
    /\ mainPc = "exited"
    /\ ctxDone
    /\ goPc = "done"
    /\ serverErrors = 0
    /\ elapsed > 0
    /\ shutdownErr = "nil"
    /\ exitCode = 0

\* C8: with a malformed -port the process exits at once with a non-zero
\* status: the goroutine is never started, no listener is opened and no
\* request served.
C8_MalformedPortNeverListens ==
    (args = "malformed") =>
        /\ mainPc \in {"start", "exited"}
        /\ mainPc = "exited" => exitCode \notin {-1, 0}
        /\ goPc = "none"
        /\ ~listenerOpen
        /\ ~inShutdown
        /\ \A r \in Reqs : req[r].pc = "idle"

C8_Witness ==
    /\ args = "malformed"
    /\ mainPc = "exited"
    /\ exitCode = 2

\* C9: every answer to GET /openapi.yaml has status 200, Content-Type
\* text/plain, Access-Control-Allow-Origin * and the embedded document as its
\* body.
C9_OpenapiAnswer ==
    \A r \in Reqs :
        (Served(r) /\ req[r].route = "openapi") =>
            /\ req[r].w.status = StatusOK
            /\ req[r].w.sent["Content-Type"] = "text/plain"
            /\ req[r].w.sent["Access-Control-Allow-Origin"] = "*"
            /\ req[r].passed = <<openapi>>
            /\ ~req[r].w.broken => req[r].w.body = openapi

C9_Witness ==
    \E r \in Reqs :
        /\ req[r].pc = "done"
        /\ req[r].route = "openapi"
        /\ ~req[r].w.broken
        /\ req[r].w.body = openapi

\* C10: every answer to GET /health has status 200 and Content-Type
\* application/json, its body is the JSON of the value captured when the
\* handler was built, the same in every answer, and that value never changes
\* once the server is set up.
C10_HealthAnswer ==
    /\ [](\A r \in Reqs :
            (Served(r) /\ req[r].route = "health") =>
                /\ req[r].w.status = StatusOK
                /\ req[r].w.sent["Content-Type"] = "application/json"
                /\ req[r].passed[1] = Encode(MakeHealth(build))
                /\ ~req[r].w.broken => req[r].w.body = Encode(MakeHealth(build)))
    /\ [](\A r1, r2 \in Reqs :
            (/\ Served(r1) /\ req[r1].route = "health" /\ ~req[r1].w.broken
             /\ Served(r2) /\ req[r2].route = "health" /\ ~req[r2].w.broken)
                => req[r1].w.body = req[r2].w.body)
    /\ [][mainPc # "start" => health' = health]_vars

C10_Witness ==
    \E r1, r2 \in Reqs :
        /\ r1 # r2
        /\ req[r1].pc = "done" /\ req[r1].route = "health" /\ ~req[r1].w.broken
        /\ req[r2].pc = "done" /\ req[r2].route = "health" /\ ~req[r2].w.broken
        /\ req[r1].w.body = req[r2].w.body
        /\ build.revision # ""

\* The request panicked before any status was committed and recovery
\* answered with the fallback response.
FellBack(r) ==
    /\ Served(r)
    /\ req[r].caught \notin {"none", ErrAbortHandler}
    /\ req[r].rwr.status = 0
    /\ req[r].w.codes = <<StatusInternalServerError>>

\* C11: the "accessed" record is logged after the downstream chain is over,
\* also when the handler panicked: after a panic before any status, the
\* record carries the fallback status 500, the one the client got.
C11_RecordAfterFallback ==
    \A r \in Reqs :
        /\ Served(r) => Len(req[r].accessed) = 1
        /\ FellBack(r) =>
              /\ req[r].w.status = StatusInternalServerError
              /\ \A i \in 1..Len(req[r].accessed) :
                     req[r].accessed[i].status = StatusInternalServerError

\* C12: a Write without WriteHeader commits an implicit 200, and the
\* recorders capture it: once the response is committed their status is not 0.
C12_ImplicitStatusCaptured ==
    \A r \in Reqs :
        (req[r].passed # <<>> /\ req[r].w.status # 0) =>
            /\ req[r].rwr.status # 0
            /\ req[r].awr.status # 0

Last(seq) == seq[Len(seq)]

\* C13 as stated: the recorder's status is the code of the last WriteHeader
\* call and is 0 if and only if WriteHeader was never called; every call
\* reaches the underlying writer with the same code.
C13_StatusZeroIffNeverCalled ==
    \A r \in Reqs :
        /\ req[r].headed # <<>> => req[r].awr.status = Last(req[r].headed)
        /\ req[r].awr.status = 0 <=> req[r].headed = <<>>

\* C13 amended: the recorder's status is the code of the last WriteHeader
\* call, 0 included, and 0 before any call; every call reaches the recorder
\* below and the underlying writer with the same code, in the same order; and
\* the headers the handler set through Header() are the underlying writer's.
C13_LastWriteWins ==
    \A r \in Reqs :
        /\ req[r].awr.status = IF req[r].headed = <<>> THEN 0 ELSE Last(req[r].headed)
        /\ req[r].rwr.status = req[r].awr.status
        /\ req[r].panics = 0 => req[r].w.codes = req[r].headed
        /\ (Served(r) /\ req[r].route = "notfound") =>
               req[r].w.hdr["X-Content-Type-Options"] = "nosniff"

C13_Witness ==
    \E r \in Reqs :
        /\ req[r].headed = <<StatusNotFound, 0>>
        /\ req[r].awr.status = 0
        /\ req[r].w.status = StatusNotFound
        /\ req[r].w.codes = <<StatusNotFound, 0>>

\* The state of the server's lifecycle: Listening while the listener is
\* open, Draining while server.Shutdown runs, Stopped once it has returned,
\* Created otherwise.
Lifecycle ==
    IF shutdownErr # "none" THEN "Stopped"
    ELSE IF mainPc = "shutdown" THEN "Draining"
    ELSE IF listenerOpen THEN "Listening"
    ELSE "Created"

\* C14 as stated: the lifecycle moves only Created -> Listening -> Draining
\* -> Stopped, no state skipped.
C14_NoStateSkipped ==
    [][Lifecycle' # Lifecycle =>
          <<Lifecycle, Lifecycle'>> \in
              {<<"Created", "Listening">>, <<"Listening", "Draining">>,
               <<"Draining", "Stopped">>}]_vars

\* C14 amended: the lifecycle moves only forward, Created -> Listening ->
\* Draining -> Stopped, except that Listening is skipped (Created -> Draining)
\* when the context is canceled before the goroutine has bound the listener or
\* after the bind failed; Draining is entered only with the context
\* canceled, Stopped only from Draining, when Shutdown returns.
C14_ForwardOnly ==
    [][Lifecycle' # Lifecycle =>
          /\ <<Lifecycle, Lifecycle'>> \in
                 {<<"Created", "Listening">>, <<"Listening", "Draining">>,
                  <<"Created", "Draining">>, <<"Draining", "Stopped">>}
          /\ Lifecycle' = "Draining" => ctxDone
          /\ (Lifecycle = "Created" /\ Lifecycle' = "Draining") => goPc # "serving"
          /\ Lifecycle' = "Stopped" => (mainPc = "shutdown" /\ mainPc' = "returned")]_vars

C14_Witness ==
    /\ Lifecycle = "Stopped"
    /\ goPc = "closed"
    /\ mainPc = "exited"

\* C15: from the call of Shutdown on, the listener is closed and stays
\* closed and no connection is accepted; a goroutine that reaches
\* ListenAndServe only then never opens the listener and logs no "server
\* error".
C15_NoAcceptAfterDrain ==
    [][inShutdown' =>
          /\ ~listenerOpen'
          /\ inShutdown =>
                /\ \A r \in Reqs : req[r].pc = "idle" => req'[r].pc = "idle"
                /\ serverErrors' = serverErrors
                /\ goPc # "serving" => goPc' # "serving"]_vars

C15_Witness ==
    /\ goPc = "closed"
    /\ inShutdown
    /\ ~listenerOpen
    /\ serverErrors = 0

\* C16: a bind failure of ListenAndServe is only logged: run keeps waiting
\* for the context, and once it is canceled returns what Shutdown returns,
\* nil with nothing in flight, so the process exits with status 0.
C16_BindFailureOnlyLogged ==
    serverErrors > 0 =>
        /\ ~listenerOpen
        /\ \A r \in Reqs : req[r].pc = "idle"
        /\ ~ctxDone => (mainPc = "waiting" /\ exitCode = -1)
        /\ mainPc \in {"returned", "exited"} => (shutdownErr = "nil" /\ runErr = "nil")
        /\ mainPc = "exited" => exitCode = 0

C16_Witness ==
    /\ serverErrors = 1
    /\ goPc = "done"
    /\ mainPc = "exited"
    /\ exitCode = 0

\* C17: when the encoding of the health response fails, the client gets
\* status 500, not the 200 set before the encoding.
C17_EncodeFailureIs500 ==
    \A r \in Reqs :
        (Served(r) /\ req[r].route = "health"
            /\ req[r].headed = <<StatusOK, StatusInternalServerError>>) =>
                req[r].w.status = StatusInternalServerError

\* C18: requests share no state of the pipeline: a step of one request
\* leaves every other request as it was, and the status and byte count of a
\* request's recorder are those of its own WriteHeader and Write calls.
C18_NoSharedPipelineState ==
    /\ [][\A r, k \in Reqs : (r # k /\ req'[r] # req[r]) => req'[k] = req[k]]_vars
    /\ [](\A r \in Reqs :
            /\ req[r].awr.numBytes = SumLen(req[r].passed)
            /\ req[r].awr.status = IF req[r].headed = <<>> THEN 0
                                   ELSE Last(req[r].headed))

C18_Witness ==
    \E r1, r2 \in Reqs :
        /\ r1 # r2
        /\ req[r1].pc = "handler" /\ req[r2].pc = "handler"
        /\ req[r1].awr.numBytes = 3 /\ req[r1].awr.status = 0
        /\ req[r2].awr.numBytes = 1 /\ req[r2].awr.status = StatusNotFound

\* C19: when the grace period ends with requests in flight, Shutdown only
\* returns the deadline error: the requests are left as they are, and a
\* handler stops running only by its own return or panic.
C19_StragglersNotCanceled ==
    /\ [][(shutdownErr = "none" /\ shutdownErr' = "deadline") => req' = req]_vars
    /\ [][\A r \in Reqs :
            (req[r].pc = "handler" /\ req'[r].pc # "handler") =>
                (req'[r].pc = "done" /\ mainPc' = mainPc /\ shutdownErr' = shutdownErr)]_vars

C19_Witness ==
    /\ mainPc = "returned"
    /\ shutdownErr = "deadline"
    /\ InFlight = {}
    /\ \E r \in Reqs : req[r].pc = "done" /\ Len(req[r].accessed) = 1

\* C20: every WriteHeader and Write of a handler passes through both
\* recorders, which therefore hold the same status and byte count at all
\* times; the fallback 500 of recovery goes to the raw writer and is recorded
\* by neither.
C20_RecordersAgree ==
    \A r \in Reqs :
        /\ req[r].awr = req[r].rwr
        /\ (Served(r) /\ req[r].caught \notin {"none", ErrAbortHandler}
               /\ req[r].w.codes # <<>> /\ Last(req[r].w.codes) = StatusInternalServerError
               /\ req[r].headed # req[r].w.codes) =>
              /\ req[r].awr.status = 0
              /\ req[r].awr.numBytes = SumLen(req[r].passed)

C20_Witness ==
    \E r \in Reqs :
        /\ FellBack(r)
        /\ req[r].w.status = StatusInternalServerError
        /\ req[r].awr.status = 0
        /\ req[r].rwr.status = 0
        /\ req[r].awr.numBytes = 0
        /\ req[r].w.body = <<"boom", "\n">>

====
